---- MODULE Spec2Model ----
(***************************************************************************)
(* Model of components/examples/daemon.py: the example CKN daemon.  It     *)
(* probes the broker in a bounded retry loop, loads one event from a JSON  *)
(* file, stamps three timestamp fields, normalises flattened_scores,       *)
(* produces one message and flushes.                                       *)
(*                                                                         *)
(* Text is modelled as a sequence of tokens; a token is one character, or  *)
(* an identifier (a key name, a word) written as one unit.                 *)
(***************************************************************************)
EXTENDS Integers, Sequences, FiniteSets, TLC

\* ---------------------------------------------------------------- bounds
MaxScoresLen == 2      \* longest flattened_scores list in the event file
MaxScore == 2          \* scores are drawn from 1..MaxScore
MaxSec == 1            \* seconds part of the instant read by utcnow()
MaxMicro == 1          \* microseconds part of the instant read by utcnow()

\* ------------------------------------------------------ program constants
NumTries == 5
KAFKA_TOPIC == "oracle-events"

K_RECV == "image_receiving_timestamp"
K_SCORE == "image_scoring_timestamp"
K_DELETE == "image_store_delete_time"
K_FLAT == "flattened_scores"
K_OTHER == "label"

\* ---------------------------------------------------------- Python values
\* One record shape for every value: t is the Python type, s the text of a
\* str, l the elements of a list of numbers, n the value of a number.
PyStr(s) == [t |-> "str", s |-> s, l |-> <<>>, n |-> 0]
PyList(l) == [t |-> "list", s |-> <<>>, l |-> l, n |-> 0]
PyNum(n) == [t |-> "num", s |-> <<>>, l |-> <<>>, n |-> n]
PyNoneVal == [t |-> "None", s |-> <<>>, l |-> <<>>, n |-> 0]

\* A top-level value: what json.load returns.  A dict keeps its items in
\* insertion order as a sequence of [k, v] pairs.
PyDict(items) == [t |-> "dict", items |-> items]
PyTop(kind) == [t |-> kind, items |-> <<>>]
PyNone == PyTop("None")

DictHas(d, k) == \E j \in 1..Len(d) : d[j].k = k
DictGet(d, k) == d[CHOOSE j \in 1..Len(d) : d[j].k = k].v
DictSet(d, k, v) ==
    IF DictHas(d, k)
    THEN [j \in 1..Len(d) |-> IF d[j].k = k THEN [k |-> k, v |-> v] ELSE d[j]]
    ELSE Append(d, [k |-> k, v |-> v])

\* ------------------------------------------------------------ conversions
Digits == <<"0", "1", "2", "3", "4", "5", "6", "7", "8", "9">>
Digit(n) == Digits[n + 1]

\* datetime.isoformat(): the fractional part is omitted when microsecond is 0
IsoFormat(now) ==
    <<"T", Digit(now.sec)>> \o
    (IF now.micro # 0 THEN <<".", Digit(now.micro)>> ELSE <<>>)

\* f"{current_timestamp}Z"
StampText(ts) == ts \o <<"Z">>

RECURSIVE JoinNums(_)
JoinNums(l) ==
    IF l = <<>> THEN <<>>
    ELSE IF Len(l) = 1 THEN <<Digit(l[1])>>
    ELSE <<Digit(l[1]), ",", " ">> \o JoinNums(Tail(l))

\* json.dumps of a list of numbers: "[1, 2]"
JsonDumpsList(l) == <<"[">> \o JoinNums(l) \o <<"]">>

RECURSIVE EscapeStr(_)
EscapeStr(s) ==
    IF s = <<>> THEN <<>>
    ELSE (IF s[1] \in {"\"", "\\"} THEN <<"\\", s[1]>> ELSE <<s[1]>>)
         \o EscapeStr(Tail(s))

JsonDumpsValue(v) ==
    CASE v.t = "str" -> <<"\"">> \o EscapeStr(v.s) \o <<"\"">>
      [] v.t = "list" -> JsonDumpsList(v.l)
      [] v.t = "num" -> <<Digit(v.n)>>
      [] OTHER -> <<"null">>

RECURSIVE JoinItems(_)
JoinItems(d) ==
    IF d = <<>> THEN <<>>
    ELSE <<"\"", d[1].k, "\"", ":", " ">> \o JsonDumpsValue(d[1].v)
         \o (IF Len(d) = 1 THEN <<>> ELSE <<",", " ">> \o JoinItems(Tail(d)))

\* json.dumps(event) for the dict the transformer leaves behind
JsonDumps(ev) == <<"{">> \o JoinItems(ev.items) \o <<"}">>

\* --------------------------------------------------------- the event file
\* JSON values as they stand in the file, before json.load.
JString(s) == [t |-> "string", s |-> s, l |-> <<>>, n |-> 0]
JArray(l) == [t |-> "array", s |-> <<>>, l |-> l, n |-> 0]
JNumber(n) == [t |-> "number", s |-> <<>>, l |-> <<>>, n |-> n]
JNullVal == [t |-> "null", s |-> <<>>, l |-> <<>>, n |-> 0]

ScoreLists == UNION {[1..n -> 1..MaxScore] : n \in 0..MaxScoresLen}

\* what the file may carry under flattened_scores
FlatValues ==
    {JArray(l) : l \in ScoreLists}
    \cup {JString(<<"[", "1", "]">>), JString(<<"a", "\"", "b">>),
          JNumber(1), JNullVal}

OldStamp == JString(<<"old">>)

StampItems ==
    { <<>>,
      <<[k |-> K_RECV, v |-> OldStamp]>>,
      <<[k |-> K_SCORE, v |-> JNumber(0)], [k |-> K_RECV, v |-> OldStamp],
        [k |-> K_DELETE, v |-> OldStamp]>> }

FlatItems == {<<>>} \cup {<<[k |-> K_FLAT, v |-> f]>> : f \in FlatValues}

OtherItems == {<<>>, <<[k |-> K_OTHER, v |-> JString(<<"cat">>)]>>}

JObjects ==
    {[t |-> "object", items |-> a \o b \o c] :
        a \in StampItems, b \in FlatItems, c \in OtherItems}

JScalars == {[t |-> kd, items |-> <<>>] :
                kd \in {"null", "array", "string", "number", "true"}}

\* the states /app/event.json can be in when the daemon starts:
\*   missing     open raises FileNotFoundError
\*   unreadable  open or read raises another error (the path is a
\*               directory, no permission, bytes that do not decode)
\*   invalid     text that json.load rejects with JSONDecodeError
\*   json        text that json.load accepts, holding doc
Files ==
    {[state |-> st, doc |-> [t |-> "null", items |-> <<>>]] :
        st \in {"missing", "unreadable", "invalid"}}
    \cup {[state |-> "json", doc |-> d] : d \in JObjects \cup JScalars}

Instants == [sec : 0..MaxSec, micro : 0..MaxMicro]

\* json.load: the JSON-to-Python type mapping
LoadValue(j) ==
    CASE j.t = "string" -> PyStr(j.s)
      [] j.t = "array" -> PyList(j.l)
      [] j.t = "number" -> PyNum(j.n)
      [] OTHER -> PyNoneVal

JsonLoad(doc) ==
    CASE doc.t = "object" ->
            PyDict([j \in 1..Len(doc.items) |->
                      [k |-> doc.items[j].k, v |-> LoadValue(doc.items[j].v)]])
      [] doc.t = "null" -> PyNone
      [] doc.t = "array" -> PyTop("list")
      [] doc.t = "string" -> PyTop("str")
      [] doc.t = "number" -> PyTop("num")
      [] OTHER -> PyTop("bool")

\* read_event_from_file: the value returned, the line logged, and the
\* exception that leaves the function (only FileNotFoundError and
\* JSONDecodeError are handled)
read_event_from_file(f) ==
    CASE f.state = "missing" ->
            [ret |-> PyNone, log |-> <<"Event file not found">>, exc |-> "none"]
      [] f.state = "invalid" ->
            [ret |-> PyNone, log |-> <<"Invalid JSON in event file">>, exc |-> "none"]
      [] f.state = "unreadable" ->
            [ret |-> PyNone, log |-> <<>>, exc |-> "OSError"]
      [] OTHER ->
            [ret |-> JsonLoad(f.doc), log |-> <<>>, exc |-> "none"]

\* variant: a truthiness test (`if not event`) in place of `is None`
EventIsFalsy(ev) == ev.t = "None" \/ (ev.t = "dict" /\ ev.items = <<>>)

\* `event is None`
EventIsNone(ev) == ev.t = "None"

\* delivery_report(err, msg): the line it logs
delivery_report(err, msg) ==
    IF err # "None" THEN <<"Delivery failed">>
    ELSE <<"Produced example event to topic", msg.topic>>

\* variant: the third field is assigned without the Z suffix
UpdateTimestamps_NoZ(items, ts) ==
    DictSet(DictSet(DictSet(items, K_RECV, PyStr(StampText(ts))),
                    K_SCORE, PyStr(StampText(ts))),
            K_DELETE, PyStr(ts))

\* lines 101-103: the three assignments of the stamped text
UpdateTimestamps(items, ts) ==
    DictSet(DictSet(DictSet(items, K_RECV, PyStr(StampText(ts))),
                    K_SCORE, PyStr(StampText(ts))),
            K_DELETE, PyStr(StampText(ts)))

\* lines 106-107: isinstance(event['flattened_scores'], list)
NormalizeScores(items) ==
    IF DictGet(items, K_FLAT).t = "list"
    THEN DictSet(items, K_FLAT, PyStr(JsonDumpsList(DictGet(items, K_FLAT).l)))
    ELSE items

\* ------------------------------------------------------------------ state
VARIABLES
    pc,                \* position of the script
    file,              \* /app/event.json as the daemon finds it
    i,                 \* loop variable of test_ckn_broker_connection
    attempts,          \* outcome of every list_topics call so far
    sleeps,            \* number of time.sleep(5) calls so far
    probeResult,       \* "none" until the probe returns, then "True"/"False"
    readCalls,         \* number of read_event_from_file calls
    event,             \* the variable `event` of the script
    current_timestamp, \* the variable `current_timestamp` of the script
    producers,         \* number of Producer objects constructed
    produced,          \* messages handed to producer.produce
    callbacks,         \* err argument of every delivery_report call
    log,               \* lines logged so far
    exitCode,          \* -1 while running, then the exit status
    exitAt,            \* step at which the process ended
    raised             \* uncaught exception that ended the process

vars == <<pc, file, i, attempts, sleeps, probeResult, readCalls, event,
          current_timestamp, producers, produced, callbacks, log, exitCode,
          exitAt, raised>>

Init ==
    /\ pc = "probe"
    /\ file \in Files
    /\ i = 0
    /\ attempts = <<>>
    /\ sleeps = 0
    /\ probeResult = "none"
    /\ readCalls = 0
    /\ event = PyNone
    /\ current_timestamp = <<>>
    /\ producers = 0
    /\ produced = <<>>
    /\ callbacks = <<>>
    /\ log = <<"Connecting to the CKN broker">>
    /\ exitCode = -1
    /\ exitAt = "none"
    /\ raised = "none"

\* ---------------------------------------------- test_ckn_broker_connection
\* variant: a successful attempt does not return, the loop goes on
ProbeAttemptOk_NoReturn ==
    /\ pc = "probe"
    /\ i < NumTries
    /\ attempts' = Append(attempts, TRUE)
    /\ i' = i + 1
    /\ UNCHANGED <<pc, file, probeResult, sleeps, readCalls, event,
                   current_timestamp, producers, produced, callbacks, log,
                   exitCode, exitAt, raised>>

\* lines 46-50: list_topics succeeds, the function returns True
ProbeAttemptOk ==
    /\ pc = "probe"
    /\ i < NumTries
    /\ attempts' = Append(attempts, TRUE)
    /\ probeResult' = "True"
    /\ pc' = "probed"
    /\ UNCHANGED <<file, i, sleeps, readCalls, event, current_timestamp,
                   producers, produced, callbacks, log, exitCode, exitAt, raised>>

\* variant: the first failure gives up (return False inside the handler)
ProbeAttemptFail_ReturnsFalse ==
    /\ pc = "probe"
    /\ i < NumTries
    /\ attempts' = Append(attempts, FALSE)
    /\ log' = Append(log, "CKN broker not available yet")
    /\ sleeps' = sleeps + 1
    /\ probeResult' = "False"
    /\ pc' = "probed"
    /\ UNCHANGED <<file, i, readCalls, event, current_timestamp,
                   producers, produced, callbacks, exitCode, exitAt, raised>>

\* variant: no sleep after the last attempt
ProbeAttemptFail_NoLastSleep ==
    /\ pc = "probe"
    /\ i < NumTries
    /\ attempts' = Append(attempts, FALSE)
    /\ log' = Append(log, "CKN broker not available yet")
    /\ sleeps' = IF i + 1 < NumTries THEN sleeps + 1 ELSE sleeps
    /\ i' = i + 1
    /\ UNCHANGED <<pc, file, probeResult, readCalls, event, current_timestamp,
                   producers, produced, callbacks, exitCode, exitAt, raised>>

\* lines 46-53: AdminClient or list_topics raises; log, sleep, next iteration
ProbeAttemptFail ==
    /\ pc = "probe"
    /\ i < NumTries
    /\ attempts' = Append(attempts, FALSE)
    /\ log' = Append(log, "CKN broker not available yet")
    /\ sleeps' = sleeps + 1
    /\ i' = i + 1
    /\ UNCHANGED <<pc, file, probeResult, readCalls, event, current_timestamp,
                   producers, produced, callbacks, exitCode, exitAt, raised>>

\* lines 54-55: the loop ran out
ProbeExhausted ==
    /\ pc = "probe"
    /\ i >= NumTries
    /\ log' = Append(log, "Could not connect to the CKN broker")
    /\ probeResult' = "False"
    /\ pc' = "probed"
    /\ UNCHANGED <<file, i, attempts, sleeps, readCalls, event,
                   current_timestamp, producers, produced, callbacks,
                   exitCode, exitAt, raised>>

\* ------------------------------------------------------------------- main
\* variant: the result of the probe is logged but does not stop the script
MainProbeCheck_NoExit ==
    /\ pc = "probed"
    /\ log' = Append(log, IF probeResult # "True"
                          THEN "Shutting down CKN Daemon due to broker not being available"
                          ELSE "Successfully connected to the CKN broker")
    /\ pc' = "load"
    /\ UNCHANGED <<file, i, attempts, sleeps, probeResult, readCalls, event,
                   current_timestamp, producers, produced, callbacks,
                   exitCode, exitAt, raised>>

\* lines 88-91
MainProbeCheck ==
    /\ pc = "probed"
    /\ IF probeResult # "True"
       THEN /\ log' = Append(log, "Shutting down CKN Daemon due to broker not being available")
            /\ pc' = "exited"
            /\ exitCode' = 1
            /\ exitAt' = "probe"
       ELSE /\ log' = Append(log, "Successfully connected to the CKN broker")
            /\ pc' = "load"
            /\ UNCHANGED <<exitCode, exitAt>>
    /\ UNCHANGED <<file, i, attempts, sleeps, probeResult, readCalls, event,
                   current_timestamp, producers, produced, callbacks, raised>>

\* variant: the result of the load is not checked
MainLoad_NoCheck ==
    /\ pc = "load"
    /\ readCalls' = readCalls + 1
    /\ IF read_event_from_file(file).exc # "none"
       THEN /\ raised' = read_event_from_file(file).exc
            /\ pc' = "exited"
            /\ exitCode' = 1
            /\ exitAt' = "read"
            /\ UNCHANGED <<event, log>>
       ELSE /\ event' = read_event_from_file(file).ret
            /\ log' = log \o read_event_from_file(file).log
            /\ pc' = "transform"
            /\ UNCHANGED <<exitCode, exitAt, raised>>
    /\ UNCHANGED <<file, i, attempts, sleeps, probeResult, current_timestamp,
                   producers, produced, callbacks>>

\* lines 94-97: an exception leaving read_event_from_file is not handled
\* by the script either and ends the process with a traceback and status 1
MainLoad ==
    /\ pc = "load"
    /\ readCalls' = readCalls + 1
    /\ IF read_event_from_file(file).exc # "none"
       THEN /\ raised' = read_event_from_file(file).exc
            /\ pc' = "exited"
            /\ exitCode' = 1
            /\ exitAt' = "read"
            /\ UNCHANGED <<event, log>>
       ELSE /\ event' = read_event_from_file(file).ret
            /\ raised' = raised
            /\ IF EventIsNone(event')
               THEN /\ log' = log \o read_event_from_file(file).log
                                  \o <<"Failed to read event data. Shutting down.">>
                    /\ pc' = "exited"
                    /\ exitCode' = 1
                    /\ exitAt' = "load"
               ELSE /\ log' = log \o read_event_from_file(file).log
                    /\ pc' = "transform"
                    /\ UNCHANGED <<exitCode, exitAt>>
    /\ UNCHANGED <<file, i, attempts, sleeps, probeResult, current_timestamp,
                   producers, produced, callbacks>>

\* lines 100-107: an item assignment on a non-dict raises TypeError, a dict
\* without flattened_scores raises KeyError at line 106; either ends the
\* process with a traceback and status 1
MainTransform ==
    /\ pc = "transform"
    /\ \E now \in Instants :
        /\ current_timestamp' = IsoFormat(now)
        /\ IF event.t # "dict"
           THEN /\ raised' = "TypeError"
                /\ pc' = "exited"
                /\ exitCode' = 1
                /\ exitAt' = "transform"
                /\ UNCHANGED event
           ELSE IF ~DictHas(UpdateTimestamps(event.items, current_timestamp'), K_FLAT)
           THEN /\ raised' = "KeyError"
                /\ pc' = "exited"
                /\ exitCode' = 1
                /\ exitAt' = "transform"
                /\ event' = PyDict(UpdateTimestamps(event.items, current_timestamp'))
           ELSE /\ event' = PyDict(NormalizeScores(
                                UpdateTimestamps(event.items, current_timestamp')))
                /\ pc' = "produce"
                /\ UNCHANGED <<raised, exitCode, exitAt>>
    /\ UNCHANGED <<file, i, attempts, sleeps, probeResult, readCalls,
                   producers, produced, callbacks, log>>

\* lines 110-111
MainProduce ==
    /\ pc = "produce"
    /\ producers' = producers + 1
    /\ produced' = Append(produced, [topic |-> KAFKA_TOPIC, payload |-> JsonDumps(event)])
    /\ pc' = "flush"
    /\ UNCHANGED <<file, i, attempts, sleeps, probeResult, readCalls, event,
                   current_timestamp, callbacks, log, exitCode, exitAt, raised>>

\* variant: a failed delivery ends the process with status 1
MainFlush_ExitOnError ==
    /\ pc = "flush"
    /\ \E outcome \in {"delivered", "failed", "timeout"} :
        /\ IF outcome = "timeout"
           THEN UNCHANGED <<callbacks, log>>
           ELSE /\ callbacks' = Append(callbacks,
                                   IF outcome = "failed" THEN "KafkaError" ELSE "None")
                /\ log' = log \o delivery_report(
                                   IF outcome = "failed" THEN "KafkaError" ELSE "None",
                                   produced[Len(produced)])
        /\ exitCode' = IF outcome = "failed" THEN 1 ELSE 0
    /\ pc' = "exited"
    /\ exitAt' = "end"
    /\ UNCHANGED <<file, i, attempts, sleeps, probeResult, readCalls, event,
                   current_timestamp, producers, produced, raised>>

\* variant: a failed delivery is produced again from the callback
MainFlush_Retry ==
    /\ pc = "flush"
    /\ \E outcome \in {"delivered", "failed", "timeout"} :
        /\ IF outcome = "timeout"
           THEN UNCHANGED <<callbacks, log>>
           ELSE /\ callbacks' = Append(callbacks,
                                   IF outcome = "failed" THEN "KafkaError" ELSE "None")
                /\ log' = log \o delivery_report(
                                   IF outcome = "failed" THEN "KafkaError" ELSE "None",
                                   produced[Len(produced)])
        /\ produced' = IF outcome = "failed"
                       THEN Append(produced, produced[Len(produced)])
                       ELSE produced
    /\ pc' = "exited"
    /\ exitCode' = 0
    /\ exitAt' = "end"
    /\ UNCHANGED <<file, i, attempts, sleeps, probeResult, readCalls, event,
                   current_timestamp, producers, raised>>

\* line 112 and the end of the script: flush serves the delivery callback
\* of the queued message (delivered or failed), or times out before it
MainFlush ==
    /\ pc = "flush"
    /\ \E outcome \in {"delivered", "failed", "timeout"} :
        IF outcome = "timeout"
        THEN UNCHANGED <<callbacks, log>>
        ELSE /\ callbacks' = Append(callbacks,
                                IF outcome = "failed" THEN "KafkaError" ELSE "None")
             /\ log' = log \o delivery_report(
                                IF outcome = "failed" THEN "KafkaError" ELSE "None",
                                produced[Len(produced)])
    /\ pc' = "exited"
    /\ exitCode' = 0
    /\ exitAt' = "end"
    /\ UNCHANGED <<file, i, attempts, sleeps, probeResult, readCalls, event,
                   current_timestamp, producers, produced, raised>>

Next ==
    \/ ProbeAttemptOk
    \/ ProbeAttemptFail
    \/ ProbeExhausted
    \/ MainProbeCheck
    \/ MainLoad
    \/ MainTransform
    \/ MainProduce
    \/ MainFlush

Spec == Init /\ [][Next]_vars

\* ------------------------------------------- reading a payload back
\* A reader of the produced text, used to state what the payload carries.
DigitValue(tok) == CHOOSE n \in 0..9 : Digits[n + 1] = tok

RECURSIVE ScanString(_, _, _)
\* p is the position after the opening quote
ScanString(toks, p, acc) ==
    IF toks[p] = "\"" THEN [s |-> acc, next |-> p + 1]
    ELSE IF toks[p] = "\\" THEN ScanString(toks, p + 2, Append(acc, toks[p + 1]))
    ELSE ScanString(toks, p + 1, Append(acc, toks[p]))

RECURSIVE ScanNums(_, _, _)
\* p is the position after the opening bracket
ScanNums(toks, p, acc) ==
    IF toks[p] = "]" THEN [l |-> acc, next |-> p + 1]
    ELSE IF toks[p] \in {",", " "} THEN ScanNums(toks, p + 1, acc)
    ELSE ScanNums(toks, p + 1, Append(acc, DigitValue(toks[p])))

ScanValue(toks, p) ==
    CASE toks[p] = "\"" ->
            [v |-> PyStr(ScanString(toks, p + 1, <<>>).s),
             next |-> ScanString(toks, p + 1, <<>>).next]
      [] toks[p] = "[" ->
            [v |-> PyList(ScanNums(toks, p + 1, <<>>).l),
             next |-> ScanNums(toks, p + 1, <<>>).next]
      [] toks[p] = "null" -> [v |-> PyNoneVal, next |-> p + 1]
      [] OTHER -> [v |-> PyNum(DigitValue(toks[p])), next |-> p + 1]

RECURSIVE ScanItems(_, _, _)
ScanItems(toks, p, acc) ==
    IF toks[p] = "}" THEN acc
    ELSE IF toks[p] \in {",", " "} THEN ScanItems(toks, p + 1, acc)
    ELSE LET key == ScanString(toks, p + 1, <<>>)
             val == ScanValue(toks, key.next + 2)
         IN  ScanItems(toks, val.next, Append(acc, [k |-> key.s[1], v |-> val.v]))

\* the members of the JSON object in a payload, in order
PayloadItems(payload) == ScanItems(payload, 2, <<>>)

\* the text "[1, 2]" read back as the list of its numbers
TextAsList(s) == ScanNums(s, 2, <<>>).l

KeyCount(d, k) == Cardinality({j \in 1..Len(d) : d[j].k = k})

\* ----------------------------------------------------- recurring notions
AllFailed == Len(attempts) = NumTries /\ \A j \in 1..Len(attempts) : ~attempts[j]

FirstOkAt(k) ==
    /\ Len(attempts) = k
    /\ attempts[k]
    /\ \A j \in 1..(k - 1) : ~attempts[j]

FileIsObject == file.state = "json" /\ file.doc.t = "object"

\* the file holds a JSON object that has a flattened_scores member
WellFormedFile == FileIsObject /\ DictHas(file.doc.items, K_FLAT)

Exited == pc = "exited"

\* ------------------------------------------------------------- properties

\* C1: when every probe attempt has failed, the event file is never read,
\* no producer is built, no message is produced, and the process can only
\* be in the probe or ended at the probe check with exit code 1.
C1_AllFailedExitsWithoutReading ==
    AllFailed =>
        /\ readCalls = 0
        /\ producers = 0
        /\ produced = <<>>
        /\ pc \in {"probe", "probed", "exited"}
        /\ Exited => (exitCode = 1 /\ exitAt = "probe" /\ raised = "none")

C1_Witness == AllFailed /\ Exited /\ exitCode = 1 /\ readCalls = 0

C3_SuccessOnKthProceeds ==
    /\ \A j \in 1..(Len(attempts) - 1) : ~attempts[j]
    /\ \A k \in 1..NumTries :
         FirstOkAt(k) =>
            /\ probeResult = "True"
            /\ sleeps = k - 1
            /\ exitAt # "probe"
            /\ Exited => readCalls = 1
            /\ (Exited /\ WellFormedFile) =>
                  (exitCode = 0 /\ Len(produced) = 1 /\ raised = "none")
    /\ probeResult = "True" => \E k \in 1..NumTries : FirstOkAt(k)
    /\ exitAt = "probe" => AllFailed

C3_Witness ==
    /\ FirstOkAt(3)
    /\ Exited /\ exitCode = 0
    /\ Len(produced) = 1

\* C4: the probe makes at most NumTries attempts, stops at the first
\* success and returns True, returns False only after NumTries failures,
\* and never raises.
C4_ProbeBounded ==
    /\ Len(attempts) <= NumTries
    /\ \A j \in 1..Len(attempts) : attempts[j] => j = Len(attempts)
    /\ (attempts # <<>> /\ attempts[Len(attempts)]) <=> probeResult = "True"
    /\ probeResult = "False" => AllFailed
    /\ pc = "probe" => probeResult = "none"
    /\ raised # "none" => (probeResult = "True" /\ exitAt \in {"read", "transform"})

C4_Witness == probeResult = "False" /\ Len(attempts) = NumTries /\ pc = "probed"

\* C5: once a message has been handed to the producer the process ends with
\* exit code 0 whether the callback reported success, reported an error, or
\* did not fire.
C5_DeliveryDoesNotChangeExit ==
    produced # <<>> =>
        /\ pc \in {"flush", "exited"}
        /\ exitCode # 1
        /\ Exited =>
             /\ exitCode = 0
             /\ callbacks \in {<<>>, <<"None">>, <<"KafkaError">>}

C5_Witness ==
    /\ Exited /\ exitCode = 0
    /\ callbacks = <<"KafkaError">>
    /\ log[Len(log)] = "Delivery failed"

\* C6: at most one message is produced, on KAFKA_TOPIC, only after a
\* successful probe and a successful load; the callback runs at most once
\* and produces nothing; a run that exits 0 has produced exactly one
\* message and a run that exits 1 none.
C6_AtMostOneProduce ==
    /\ Len(produced) <= 1
    /\ producers = Len(produced)
    /\ \A m \in 1..Len(produced) : produced[m].topic = KAFKA_TOPIC
    /\ produced # <<>> =>
         (probeResult = "True" /\ readCalls = 1 /\ event.t = "dict")
    /\ Len(callbacks) <= Len(produced)
    /\ exitCode = 0 => Len(produced) = 1
    /\ exitCode = 1 => produced = <<>>

C6_Witness ==
    /\ Exited /\ exitCode = 0
    /\ Len(produced) = 1
    /\ callbacks = <<"KafkaError">>
    /\ producers = 1

\* C7: every produced payload carries each of the three timestamp fields
\* exactly once, as a string, all three equal to the text of the one
\* instant held in current_timestamp followed by Z, whatever the file held
\* under those keys; and every event object carrying flattened_scores is
\* produced.
C7_TimestampsEqualWithZ ==
    /\ \A m \in 1..Len(produced) :
         LET items == PayloadItems(produced[m].payload)
         IN  /\ \A k \in {K_RECV, K_SCORE, K_DELETE} :
                   /\ KeyCount(items, k) = 1
                   /\ DictGet(items, k).t = "str"
                   /\ DictGet(items, k).s = current_timestamp \o <<"Z">>
                   /\ DictGet(items, k).s[Len(DictGet(items, k).s)] = "Z"
             /\ \E now \in Instants :
                   DictGet(items, K_RECV).s = IsoFormat(now) \o <<"Z">>
             /\ Len(items) = Len(file.doc.items)
                    + Cardinality({k \in {K_RECV, K_SCORE, K_DELETE} :
                                      ~DictHas(file.doc.items, k)})
    /\ (Exited /\ probeResult = "True" /\ WellFormedFile) => Len(produced) = 1

C7_Witness ==
    /\ Exited
    /\ Len(produced) = 1
    /\ DictHas(file.doc.items, K_RECV)
    /\ DictHas(file.doc.items, K_DELETE)
    /\ Len(current_timestamp) = 4

\* C8: for every loaded event (a JSON object): if flattened_scores is a
\* list, the payload carries the JSON text of that list as a string;
\* otherwise the event is published with flattened_scores as it was (and
\* without it, when the file had none).
C8_ScoresNormalizedOrPassedThrough ==
    (Exited /\ readCalls = 1 /\ FileIsObject) =>
        /\ Len(produced) = 1
        /\ LET items == PayloadItems(produced[1].payload)
               had == DictHas(file.doc.items, K_FLAT)
           IN  IF had /\ DictGet(file.doc.items, K_FLAT).t = "array"
               THEN /\ DictGet(items, K_FLAT).t = "str"
                    /\ TextAsList(DictGet(items, K_FLAT).s)
                          = DictGet(file.doc.items, K_FLAT).l
               ELSE IF had
               THEN DictGet(items, K_FLAT) = LoadValue(DictGet(file.doc.items, K_FLAT))
               ELSE ~DictHas(items, K_FLAT)

\* C8, the part that holds: an event object that carries flattened_scores
\* is produced, a list as the string of its JSON text and any other value
\* as it was.
C8_WhenScoresPresent ==
    (Exited /\ readCalls = 1 /\ WellFormedFile) =>
        /\ Len(produced) = 1
        /\ LET got == DictGet(PayloadItems(produced[1].payload), K_FLAT)
               had == DictGet(file.doc.items, K_FLAT)
           IN  IF had.t = "array"
               THEN got.t = "str" /\ TextAsList(got.s) = had.l
               ELSE got = LoadValue(had)

C8_WhenScoresPresent_Witness ==
    /\ Exited /\ Len(produced) = 1
    /\ DictGet(file.doc.items, K_FLAT).t = "array"
    /\ Len(DictGet(file.doc.items, K_FLAT).l) = 2

\* C9: every failed attempt is followed by one sleep, the last one
\* included: the number of sleeps equals the number of failed attempts, and
\* a probe that returns False has slept NumTries times.
C9_SleepAfterEveryFailure ==
    /\ sleeps = Cardinality({j \in 1..Len(attempts) : ~attempts[j]})
    /\ sleeps = i
    /\ probeResult = "False" => sleeps = NumTries
    /\ log[Len(log)] = "Could not connect to the CKN broker" => sleeps = NumTries

C9_Witness ==
    /\ probeResult = "False"
    /\ sleeps = NumTries
    /\ log[Len(log)] = "Could not connect to the CKN broker"

====
